---- MODULE Spec2Model ----
(***************************************************************************)
(* Recurring-task instance generator of the task-management backend        *)
(* (src/src/services/recurringTaskService.ts, class RecurringTaskService   *)
(* in its transactional version, lines 503-1153).                          *)
(*                                                                         *)
(* Time is an integer number of ticks since 1970-01-01T00:00 local time;   *)
(* a day has TicksPerDay ticks, so that startOfDay is a real truncation.   *)
(* Daylight-saving shifts are outside the model.                           *)
(***************************************************************************)
EXTENDS Integers, Sequences, FiniteSets, TLC

VARIABLES db, now, last, steps, procs, sweep, calc

vars == <<db, now, last, steps, procs, sweep, calc>>

(***************************************************************************)
(* Bounds of the model                                                     *)
(***************************************************************************)
TicksPerDay == 2

MaxCount == 6

MaxInterval == 2

NoDate == -1

(***************************************************************************)
(* JavaScript Date and date-fns                                            *)
(***************************************************************************)
Min(a, b) == IF a < b THEN a ELSE b

DayOf(ts) == ts \div TicksPerDay

TimeOfDay(ts) == ts % TicksPerDay

startOfDay(ts) == ts - TimeOfDay(ts)

\* Date.prototype.getDay: 0 = Sunday; 1970-01-01 was a Thursday
getDay(ts) == (DayOf(ts) + 4) % 7

\* days since 1970-01-01 of the civil date y-m-d (m in 1..12)
DaysFromCivil(y, m, d) ==
  LET yy  == IF m <= 2 THEN y - 1 ELSE y
      era == yy \div 400
      yoe == yy - era * 400
      mp  == IF m > 2 THEN m - 3 ELSE m + 9
      doy == (153 * mp + 2) \div 5 + d - 1
      doe == yoe * 365 + yoe \div 4 - yoe \div 100 + doy
  IN era * 146097 + doe - 719468

\* the civil date [y, m, d] of a day number: the 400-year era and the day of
\* the era, then the year of the era, the day of the year (from 1 March) and
\* the month (from March)
CivilOfMonth(era, yoe, doy, mp) ==
  [y |-> yoe + era * 400 + (IF mp < 10 THEN 0 ELSE 1),
   m |-> IF mp < 10 THEN mp + 3 ELSE mp - 9,
   d |-> doy - (153 * mp + 2) \div 5 + 1]

CivilOfDayOfYear(era, yoe, doy) ==
  CivilOfMonth(era, yoe, doy, (5 * doy + 2) \div 153)

CivilOfYear(era, doe, yoe) ==
  CivilOfDayOfYear(era, yoe, doe - (365 * yoe + yoe \div 4 - yoe \div 100))

CivilOfEra(era, doe) ==
  CivilOfYear(era, doe,
    (doe - doe \div 1460 + doe \div 36524 - doe \div 146096) \div 365)

CivilFromDays(z) ==
  CivilOfEra((z + 719468) \div 146097, (z + 719468) % 146097)

IsLeapYear(y) == (y % 4 = 0 /\ y % 100 # 0) \/ y % 400 = 0

\* new Date(year, month + 1, 0).getDate()
DaysInMonth(y, m) ==
  IF m = 2 THEN (IF IsLeapYear(y) THEN 29 ELSE 28)
  ELSE IF m \in {4, 6, 9, 11} THEN 30 ELSE 31

\* Date.prototype.getDate
getDate(ts) == CivilFromDays(DayOf(ts)).d

\* Date.prototype.setDate on the date ts whose civil date is c, for a day
\* that exists in its month
setDate(ts, c, d) == DaysFromCivil(c.y, c.m, d) * TicksPerDay + TimeOfDay(ts)

addDays(ts, n) == ts + n * TicksPerDay

addWeeks(ts, n) == addDays(ts, 7 * n)

\* a day of month that rolls over into the following month
DayRolledOver(y, m, d) == DaysFromCivil(y, m, d)

\* date-fns addMonths: the day of month is capped at the length of the target
\* month
DayCappedInMonth(y, m, d) == DaysFromCivil(y, m, Min(d, DaysInMonth(y, m)))

MonthAt(idx, d) == DayCappedInMonth(idx \div 12, (idx % 12) + 1, d)

MonthsAfter(c, n) == MonthAt(c.y * 12 + (c.m - 1) + n, c.d)

addMonths(ts, n) ==
  MonthsAfter(CivilFromDays(DayOf(ts)), n) * TicksPerDay + TimeOfDay(ts)

addYears(ts, n) == addMonths(ts, 12 * n)

\* a comparison that also holds for equal dates
isAfterOrEqual(a, b) == a >= b

isAfter(a, b) == a > b

\* date-fns differenceInDays / differenceInWeeks: full periods, truncated
\* towards zero
TruncDiv(a, b) == IF a >= 0 THEN a \div b ELSE -((-a) \div b)

differenceInDays(a, b) == TruncDiv(a - b, TicksPerDay)

differenceInWeeks(a, b) == TruncDiv(differenceInDays(a, b), 7)

(***************************************************************************)
(* Recurrence calculator                                                   *)
(***************************************************************************)
SeqToSet(s) == {s[i] : i \in 1..Len(s)}

RECURSIVE InsertSorted(_, _)
InsertSorted(s, x) ==
  IF s = <<>> THEN <<x>>
  ELSE IF x < Head(s) THEN <<x>> \o s
  ELSE <<Head(s)>> \o InsertSorted(Tail(s), x)

RECURSIVE SortAscending(_)
\* [...daysOfWeek].sort((a, b) => a - b)
SortAscending(s) ==
  IF s = <<>> THEN <<>>
  ELSE InsertSorted(SortAscending(Tail(s)), Head(s))

\* Array.prototype.find(day => day > current): index of the first such
\* element, 0 when there is none
RECURSIVE FindLater(_, _, _)
FindLater(s, cur, i) ==
  IF i > Len(s) THEN 0
  ELSE IF s[i] > cur THEN i
  ELSE FindLater(s, cur, i + 1)

dateMatchesPattern(template, date) ==
  CASE template.frequency = "DAILY" -> TRUE
    [] template.frequency = "WEEKLY" ->
         IF template.days_of_week = <<>> THEN TRUE
         ELSE getDay(date) \in SeqToSet(template.days_of_week)
    [] template.frequency = "MONTHLY" ->
         IF template.day_of_month = 0 THEN TRUE
         ELSE getDate(date) = template.day_of_month
    [] template.frequency = "YEARLY" -> TRUE
    [] OTHER -> FALSE

\* the first target day on or after nextCycleWeek: daysToTarget wraps
\* forward by a week when negative
FirstTargetDayFrom(nextCycleWeek, rawDaysToTarget) ==
  addDays(nextCycleWeek,
          IF rawDaysToTarget < 0 THEN rawDaysToTarget + 7 ELSE rawDaysToTarget)

NextCycle(nextCycleWeek, firstTargetDay) ==
  FirstTargetDayFrom(nextCycleWeek, firstTargetDay - getDay(nextCycleWeek))

\* a step that moves on by one week whatever the interval
WeeklyStepEveryWeek(template, fromDate, sortedDays, currentDayOfWeek, weeksSinceStart, laterIdx) ==
  IF laterIdx # 0
  THEN addDays(fromDate, sortedDays[laterIdx] - currentDayOfWeek)
  ELSE NextCycle(addWeeks(fromDate, 1), sortedDays[1])

\* laterIdx: the index in sortedDays of a later day in the same week, or 0
WeeklyStep(template, fromDate, sortedDays, currentDayOfWeek, weeksSinceStart, laterIdx) ==
  IF weeksSinceStart % template.interval = 0 /\ laterIdx # 0
  THEN addDays(fromDate, sortedDays[laterIdx] - currentDayOfWeek)
  ELSE NextCycle(addWeeks(fromDate, template.interval
                                      - (weeksSinceStart % template.interval)),
                 sortedDays[1])

WeeklyOnDays(template, fromDate, sortedDays, currentDayOfWeek) ==
  WeeklyStep(template, fromDate, sortedDays, currentDayOfWeek,
             differenceInWeeks(fromDate, startOfDay(template.start_date)),
             FindLater(sortedDays, currentDayOfWeek, 1))

getNextWeeklyOccurrence(template, fromDate) ==
  IF template.days_of_week = <<>>
  THEN addWeeks(fromDate, template.interval)
  ELSE WeeklyOnDays(template, fromDate, SortAscending(template.days_of_week),
                    getDay(fromDate))

\* nextDate.setDate(Math.min(dayOfMonth, daysInMonth)), c the civil date of
\* nextDate
SetDayOfMonth(nextDate, c, dayOfMonth) ==
  setDate(nextDate, c, Min(dayOfMonth, DaysInMonth(c.y, c.m)))

MonthlyOnDay(template, nextDate) ==
  IF template.day_of_month = 0 THEN nextDate
  ELSE SetDayOfMonth(nextDate, CivilFromDays(DayOf(nextDate)),
                     template.day_of_month)

getNextMonthlyOccurrence(template, fromDate) ==
  MonthlyOnDay(template, addMonths(fromDate, template.interval))

\* a daily step of one day whatever the interval
getNextOccurrenceEveryDay(template, fromDate) ==
  CASE template.frequency = "DAILY" -> addDays(fromDate, 1)
    [] template.frequency = "WEEKLY" ->
         getNextWeeklyOccurrence(template, fromDate)
    [] template.frequency = "MONTHLY" ->
         getNextMonthlyOccurrence(template, fromDate)
    [] template.frequency = "YEARLY" -> addYears(fromDate, template.interval)

getNextOccurrence(template, fromDate) ==
  CASE template.frequency = "DAILY" -> addDays(fromDate, template.interval)
    [] template.frequency = "WEEKLY" ->
         getNextWeeklyOccurrence(template, fromDate)
    [] template.frequency = "MONTHLY" ->
         getNextMonthlyOccurrence(template, fromDate)
    [] template.frequency = "YEARLY" -> addYears(fromDate, template.interval)

\* end_date ? startOfDay(end_date) : null
EndDateOf(template) ==
  IF template.end_date = NoDate THEN NoDate ELSE startOfDay(template.end_date)

\* the check of start_date itself, before the loop
StartOccurrences(template, existingDates) ==
  LET currentDate == startOfDay(template.start_date)
      endDate     == EndDateOf(template)
  IN IF /\ dateMatchesPattern(template, currentDate)
        /\ (endDate = NoDate \/ ~isAfter(currentDate, endDate))
        /\ currentDate \notin existingDates
     THEN <<currentDate>>
     ELSE <<>>

\* the most passes of the while loop a walk is followed for
MaxPasses == 2048

\* a loop body that collects the date also when it already exists
LoopBodyKeepingDuplicates(template, count, existingDates, occurrences, next, iterations, endDate) ==
  IF endDate # NoDate /\ isAfter(next, endDate)
  THEN [occurrences |-> occurrences, iterations |-> iterations + 1,
        reached |-> next, stopped |-> TRUE]
  ELSE [occurrences |-> Append(occurrences, next),
        iterations |-> iterations + 1, reached |-> next, stopped |-> FALSE]

\* one pass of the loop body with currentDate already advanced to next; the
\* result records the dates, the number of iterations run, the last date the
\* walk reached and whether the pass left the loop by break
LoopBody(template, count, existingDates, occurrences, next, iterations, endDate) ==
  IF endDate # NoDate /\ isAfter(next, endDate)
  THEN [occurrences |-> occurrences, iterations |-> iterations + 1,
        reached |-> next, stopped |-> TRUE]
  ELSE [occurrences |-> IF next \notin existingDates
                        THEN Append(occurrences, next) ELSE occurrences,
        iterations |-> iterations + 1, reached |-> next, stopped |-> FALSE]

\* a loop condition without the safety limit
LoopingUncapped(count, s) ==
  ~s.stopped /\ Len(s.occurrences) < count

\* occurrences.length < count && iterations < maxIterations, after no break
Looping(count, s) ==
  ~s.stopped /\ Len(s.occurrences) < count /\ s.iterations < count * 100

\* one pass of the while loop from state s, or s itself when the loop has
\* ended
Pass(template, count, existingDates, s) ==
  IF ~Looping(count, s) THEN s
  ELSE LoopBody(template, count, existingDates, s.occurrences,
                getNextOccurrence(template, s.reached), s.iterations,
                EndDateOf(template))

\* the while loop from each state of S, followed for at most n passes; the
\* passes are split in halves so that a long walk is evaluated without deep
\* nesting, and each state is taken as an element of a set so that it is
\* worked out once
RECURSIVE Passes(_, _, _, _, _)
Passes(template, count, existingDates, S, n) ==
  IF n = 1 THEN {Pass(template, count, existingDates, s) : s \in S}
  ELSE UNION {IF ~Looping(count, s) THEN {s}
              ELSE Passes(template, count, existingDates,
                          Passes(template, count, existingDates, {s}, n \div 2),
                          n - (n \div 2)) : s \in S}

OccurrenceLoop(template, count, existingDates, occurrences, currentDate, iterations) ==
  CHOOSE s \in Passes(template, count, existingDates,
                       {[occurrences |-> occurrences, iterations |-> iterations,
                         reached |-> currentDate, stopped |-> FALSE]},
                       MaxPasses) : TRUE

OccurrenceWalk(template, count, existingDates) ==
  OccurrenceLoop(template, count, existingDates,
                 StartOccurrences(template, existingDates),
                 startOfDay(template.start_date), 0)

calculateOccurrences(template, count, existingDates) ==
  OccurrenceWalk(template, count, existingDates).occurrences

(***************************************************************************)
(* Inputs of the calculator                                                *)
(***************************************************************************)
Ts(y, m, d, tod) == DaysFromCivil(y, m, d) * TicksPerDay + tod

\* Monday 2026-02-02 (at midnight and later in the day), Wednesday 2026-02-04,
\* Saturday 2026-01-31 and Monday 2028-01-31 (leap year)
CalcStartDates ==
  {Ts(2026, 2, 2, 0), Ts(2026, 2, 2, 1), Ts(2026, 2, 4, 1), Ts(2026, 1, 31, 0),
   Ts(2028, 1, 31, 0)}

EndOffsets == {2, 7, 28}

ExistingOffsets == {0, 2, 7}

Rule(f, i, dow, dom) ==
  [frequency |-> f, interval |-> i, days_of_week |-> dow, day_of_month |-> dom]

\* the fields of a template the generator reads or copies; days_of_week <<>>
\* and day_of_month 0 stand for null

CalcRules ==
  {Rule("DAILY", i, <<>>, 0) : i \in 1..MaxInterval} \cup
  {Rule("YEARLY", i, <<>>, 0) : i \in 1..MaxInterval} \cup
  {Rule("WEEKLY", i, dow, 0) :
     i \in 1..MaxInterval,
     dow \in {<<>>, <<1>>, <<1, 3, 5>>, <<5, 1, 3>>, <<0, 6>>}} \cup
  {Rule("MONTHLY", i, <<>>, dom) : i \in 1..MaxInterval, dom \in {0, 15, 31}}

Template(rule, start, end, active, creator) ==
  [title |-> "A", frequency |-> rule.frequency, interval |-> rule.interval,
   days_of_week |-> rule.days_of_week, day_of_month |-> rule.day_of_month,
   start_date |-> start, end_date |-> end, is_active |-> active,
   goal_type |-> "OPEN", target_quantity |-> 0, created_by |-> creator]

CalcEndDates(start) ==
  {NoDate} \cup
  {addDays(startOfDay(start), k) + tod : k \in EndOffsets, tod \in {0, 1}}

CalcTemplates ==
  UNION {{Template(r, s, e, TRUE, "u1") : e \in CalcEndDates(s)} :
           r \in CalcRules, s \in CalcStartDates}

CalcIdle ==
  [phase |-> "idle", template |-> Template(Rule("DAILY", 1, <<>>, 0), 0, NoDate, TRUE, "u1"),
   count |-> 0, existing |-> {}, result |-> <<>>]

(***************************************************************************)
(* The store: templates, default assignees, tasks, assignments, events.    *)
(* The audit log is kept as the set of (task, actor, type) triples for     *)
(* which an event row exists; how many rows carry the same triple is not   *)
(* recorded.                                                               *)
(***************************************************************************)
Users == {"u1", "u2"}

\* number of instances generated at creation, regeneration and reactivation,
\* and the buffer the scheduler keeps
BufferSize == 12

EmptyDb ==
  [templates |-> <<>>, assignees |-> {}, tasks |-> {}, assignments |-> {},
   events |-> {}, nextTaskId |-> 1, nextTemplateId |-> 1]

TemplateIds(d) == DOMAIN d.templates

TasksOf(d, templateId) ==
  {t \in d.tasks : t.recurring_template_id = templateId}

TaskIds(d) == {t.task_id : t \in d.tasks}

\* one default assignee only
OneAssigneeOf(d, templateId) ==
  LET all == {a.user_id : a \in {x \in d.assignees : x.template_id = templateId}}
  IN IF all = {} THEN {} ELSE {CHOOSE u \in all : TRUE}

AssigneesOf(d, templateId) ==
  {a.user_id : a \in {x \in d.assignees : x.template_id = templateId}}

\* startOfDay(new Date())
Today(clock) == startOfDay(clock)

\* where: occurrence_date >= today
FutureTasksOf(d, templateId, today) ==
  {t \in TasksOf(d, templateId) : t.occurrence_date >= today}

Ok(d) == [db |-> d, err |-> "none"]

Fail(d, e) == [db |-> d, err |-> e]

\* a failure of the store (connection or transaction error) during the batch
\* insert named by failAt
StoreError(failAt) ==
  CASE failAt = "tasks"       -> "StoreError(tasks)"
    [] failAt = "assignments" -> "StoreError(assignments)"
    [] failAt = "events"      -> "StoreError(events)"

StoreErrors ==
  {"StoreError(tasks)", "StoreError(assignments)", "StoreError(events)"}

\* a unit of work whose writes stay when the callback throws
TransactionWithoutRollback(before, result) == result

\* prisma.$transaction: the writes of the callback are committed when it
\* returns and rolled back when it throws
Transaction(before, result) ==
  IF result.err = "none" THEN result ELSE Fail(before, result.err)

\* a store without the unique index
NoUniqueIndex(d, templateId, occurrences) == FALSE

\* tasks_recurring_template_id_occurrence_date_key
UniqueViolation(d, templateId, occurrences) ==
  \/ \E i \in 1..Len(occurrences) :
       \E t \in TasksOf(d, templateId) : t.occurrence_date = occurrences[i]
  \/ \E i, j \in 1..Len(occurrences) : i # j /\ occurrences[i] = occurrences[j]

NewTask(d, templateId, template, occurrences, i) ==
  [task_id               |-> d.nextTaskId + i - 1,
   title                 |-> template.title,
   recurring_template_id |-> templateId,
   occurrence_date       |-> occurrences[i],
   scheduled_date        |-> occurrences[i],
   deadline              |-> occurrences[i] + TicksPerDay - 1,
   status                |-> "PENDING",
   current_quantity      |-> 0,
   goal_type             |-> template.goal_type,
   target_quantity       |-> template.target_quantity,
   created_by            |-> template.created_by]

\* tx.task.createMany({ data: taskData })
CreateManyTasks(d, templateId, template, occurrences) ==
  IF templateId \notin TemplateIds(d) THEN Fail(d, "P2003")
  ELSE IF UniqueViolation(d, templateId, occurrences) THEN Fail(d, "P2002")
  ELSE Ok([d EXCEPT
            !.tasks = @ \cup {NewTask(d, templateId, template, occurrences, i) :
                                i \in 1..Len(occurrences)},
            !.nextTaskId = @ + Len(occurrences)])

\* the re-fetch of the rows just created
CreatedTasks(d, templateId, occurrences) ==
  {t \in TasksOf(d, templateId) : t.occurrence_date \in SeqToSet(occurrences)}

\* the writing half of generateInstancesInTransaction: task rows, assignment
\* rows (full cross product with the assignees) and one event per new task;
\* failAt names the batch insert at which the store fails, if any
InsertInstances(d, templateId, template, occurrences, assignees, failAt) ==
  IF failAt = "tasks" THEN Fail(d, StoreError(failAt))
  ELSE
    LET r1 == CreateManyTasks(d, templateId, template, occurrences)
    IN IF r1.err # "none" THEN r1
       ELSE
         LET d1      == r1.db
             created == CreatedTasks(d1, templateId, occurrences)
             d2      == IF assignees = {} THEN d1
                        ELSE [d1 EXCEPT !.assignments = @ \cup
                               {[task_id |-> t.task_id, user_id |-> u] :
                                  t \in created, u \in assignees}]
             d3      == [d2 EXCEPT !.events = @ \cup
                               {[task_id  |-> t.task_id,
                                 actor_id |-> template.created_by,
                                 type     |-> "RECURRING_INSTANCE_GENERATED"] :
                                  t \in created}]
         IN IF failAt = "assignments" /\ assignees # {}
            THEN Fail(d1, StoreError(failAt))
            ELSE IF failAt = "events" THEN Fail(d2, StoreError(failAt))
            ELSE Ok(d3)

\* the reading half without the is_active guard
PlannedOccurrencesOfAnyTemplate(d, templateId, count) ==
  IF templateId \notin TemplateIds(d) THEN <<>>
  ELSE calculateOccurrences(d.templates[templateId], count,
         {t.occurrence_date : t \in TasksOf(d, templateId)})

\* the reading half: the template guard, the existing dates and the dates to
\* create
PlannedOccurrences(d, templateId, count) ==
  IF templateId \notin TemplateIds(d) \/ ~d.templates[templateId].is_active
  THEN <<>>
  ELSE CHOOSE occurrences \in
         {calculateOccurrences(d.templates[templateId], n, existingDates) :
            n \in {count},
            existingDates \in {{t.occurrence_date : t \in TasksOf(d, templateId)}}} :
         TRUE

generateInstancesInTransaction(d, templateId, count, failAt) ==
  CHOOSE result \in
    {IF occurrences = <<>> THEN Ok(d)
     ELSE InsertInstances(d, templateId, d.templates[templateId], occurrences,
                          AssigneesOf(d, templateId), failAt) :
       occurrences \in {PlannedOccurrences(d, templateId, count)}} : TRUE

generateInstances(d, templateId, count, failAt) ==
  Transaction(d, generateInstancesInTransaction(d, templateId, count, failAt))

\* tx.task.findFirst({ where: { recurring_template_id } }): no order is
\* given; the store returns the oldest row
FirstTaskOf(d, templateId) ==
  CHOOSE t \in TasksOf(d, templateId) :
    \A u \in TasksOf(d, templateId) : t.task_id <= u.task_id

\* the audit event of a template operation, tied to the template's first task
LogTemplateEvent(d, templateId, type) ==
  IF TasksOf(d, templateId) = {} THEN d
  ELSE [d EXCEPT !.events = @ \cup
          {[task_id  |-> FirstTaskOf(d, templateId).task_id,
            actor_id |-> d.templates[templateId].created_by,
            type     |-> type]}]

\* a delete of task rows cascades to their assignments and events
\* (task_assignments_task_id_fkey, task_events_task_id_fkey)
DeleteTasks(d, doomed) ==
  LET ids == {t.task_id : t \in doomed}
  IN [d EXCEPT
       !.tasks       = @ \ doomed,
       !.assignments = {a \in @ : a.task_id \notin ids},
       !.events      = {e \in @ : e.task_id \notin ids}]

\* a delete of the template row that takes only the untouched tasks with it
deleteTemplateKeepingStarted(d, templateId) ==
  IF templateId \notin TemplateIds(d) THEN Fail(d, "P2025")
  ELSE LET d1 == DeleteTasks(d, {t \in TasksOf(d, templateId) :
                                   t.status = "PENDING" /\ t.current_quantity = 0})
       IN Ok([d1 EXCEPT
                !.templates = [i \in DOMAIN @ \ {templateId} |-> @[i]],
                !.assignees = {a \in @ : a.template_id # templateId}])

\* prisma.recurringTaskTemplate.delete: the row goes, and with it, by the
\* foreign keys' ON DELETE CASCADE, its default assignees
\* (recurring_task_template_assignees_template_id_fkey) and its tasks
\* (tasks_recurring_template_id_fkey) with their assignments and events
deleteTemplate(d, templateId) ==
  IF templateId \notin TemplateIds(d) THEN Fail(d, "P2025")
  ELSE LET d1 == DeleteTasks(d, TasksOf(d, templateId))
       IN Ok([d1 EXCEPT
                !.templates = [i \in DOMAIN @ \ {templateId} |-> @[i]],
                !.assignees = {a \in @ : a.template_id # templateId}])

\* an optional list of assignee ids: given = FALSE stands for undefined
NoAssignees == [given |-> FALSE, ids |-> {}]

Assignees(ids) == [given |-> TRUE, ids |-> ids]

\* `Invalid user IDs: ${invalidUserIds.join(", ")}. These users do not exist.`
InvalidUserIdsError(invalidUserIds) ==
  CASE invalidUserIds = {"u8"} ->
         "Invalid user IDs: u8. These users do not exist."
    [] invalidUserIds = {"u9"} ->
         "Invalid user IDs: u9. These users do not exist."
    [] OTHER ->
         "Invalid user IDs: u8, u9. These users do not exist."

\* a replacement that does not look the user ids up
setDefaultAssigneesUnvalidated(d, templateId, userIds) ==
  Ok([d EXCEPT !.assignees =
        {a \in @ : a.template_id # templateId} \cup
        {[template_id |-> templateId, user_id |-> u] : u \in userIds}])

\* a replacement that also rewrites the assignments of the template's tasks
setDefaultAssigneesRetroactively(d, templateId, userIds) ==
  IF userIds \ Users # {} THEN Fail(d, InvalidUserIdsError(userIds \ Users))
  ELSE Ok([d EXCEPT
        !.assignees =
          {a \in @ : a.template_id # templateId} \cup
          {[template_id |-> templateId, user_id |-> u] : u \in userIds},
        !.assignments =
          {a \in @ : a.task_id \notin {t.task_id : t \in TasksOf(d, templateId)}}
          \cup {[task_id |-> t.task_id, user_id |-> u] :
                  t \in TasksOf(d, templateId), u \in userIds}])

setDefaultAssigneesInTransaction(d, templateId, userIds) ==
  IF userIds \ Users # {} THEN Fail(d, InvalidUserIdsError(userIds \ Users))
  ELSE IF userIds # {} /\ templateId \notin TemplateIds(d) THEN Fail(d, "P2003")
  ELSE Ok([d EXCEPT !.assignees =
             {a \in @ : a.template_id # templateId} \cup
             {[template_id |-> templateId, user_id |-> u] : u \in userIds}])

setDefaultAssignees(d, templateId, userIds) ==
  Transaction(d, setDefaultAssigneesInTransaction(d, templateId, userIds))

\* steps of a transaction callback in sequence: the first failure ends it
Then(r, next) == IF r.err # "none" THEN r ELSE next

createTemplate(d, data, assigneeUserIds, failAt) ==
  LET id == d.nextTemplateId
      d1 == [d EXCEPT !.templates = @ @@ (id :> data), !.nextTemplateId = @ + 1]
      r2 == IF assigneeUserIds.given /\ assigneeUserIds.ids # {}
            THEN setDefaultAssigneesInTransaction(d1, id, assigneeUserIds.ids)
            ELSE Ok(d1)
      r3 == Then(r2, generateInstancesInTransaction(r2.db, id, BufferSize, failAt))
      r4 == Then(r3, Ok(LogTemplateEvent(r3.db, id, "RECURRING_TEMPLATE_CREATED")))
  IN Transaction(d, r4)

\* templateRepository.updateTemplate: prisma update of one row
UpdateTemplateRow(d, templateId, fields, vals) ==
  IF templateId \notin TemplateIds(d) THEN Fail(d, "P2025")
  ELSE Ok([d EXCEPT !.templates[templateId] =
             [f \in DOMAIN @ |-> IF f \in fields THEN vals[f] ELSE @[f]]])

RecurrenceFields ==
  {"frequency", "interval", "days_of_week", "day_of_month", "start_date",
   "end_date"}

\* JavaScript truthiness of an update value
Truthy(field, value) ==
  CASE field = "interval"     -> value # 0
    [] field = "days_of_week" -> value # <<>>
    [] field = "day_of_month" -> value # 0
    [] field = "end_date"     -> value # NoDate
    [] OTHER                  -> TRUE

\* updates.frequency || updates.interval || ... || updates.end_date
RecurrenceChanged(updates) ==
  \E f \in updates.fields \cap RecurrenceFields : Truthy(f, updates.vals[f])

\* a delete filter that looks at the date only
RegenerableWhateverProgress(d, templateId, today) ==
  {t \in TasksOf(d, templateId) : t.occurrence_date >= today}

\* a delete filter that looks at the date and the status only
RegenerableWhateverQuantity(d, templateId, today) ==
  {t \in TasksOf(d, templateId) :
     t.occurrence_date >= today /\ t.status = "PENDING"}

\* where: template, occurrence_date >= today, status PENDING, quantity 0
Regenerable(d, templateId, today) ==
  {t \in TasksOf(d, templateId) :
     /\ t.occurrence_date >= today
     /\ t.status = "PENDING"
     /\ t.current_quantity = 0}

regenerateFutureInstancesInTransaction(d, templateId, today, failAt) ==
  LET d1 == DeleteTasks(d, Regenerable(d, templateId, today))
  IN generateInstancesInTransaction(d1, templateId, BufferSize, failAt)

updateTemplate(d, templateId, updates, assigneeUserIds, today, failAt) ==
  LET r1 == UpdateTemplateRow(d, templateId, updates.fields, updates.vals)
      r2 == IF assigneeUserIds.given
            THEN Then(r1,
                   setDefaultAssigneesInTransaction(r1.db, templateId, assigneeUserIds.ids))
            ELSE r1
      r3 == IF RecurrenceChanged(updates)
            THEN Then(r2,
                   regenerateFutureInstancesInTransaction(r2.db, templateId, today, failAt))
            ELSE r2
      r4 == Then(r3, Ok(LogTemplateEvent(r3.db, templateId, "RECURRING_TEMPLATE_UPDATED")))
  IN Transaction(d, r4)

deactivateTemplate(d, templateId) ==
  LET r1 == UpdateTemplateRow(d, templateId, {"is_active"}, [is_active |-> FALSE])
      r2 == Then(r1,
              Ok(LogTemplateEvent(r1.db, templateId, "RECURRING_TEMPLATE_DEACTIVATED")))
  IN Transaction(d, r2)

reactivateTemplate(d, templateId, failAt) ==
  LET r1 == UpdateTemplateRow(d, templateId, {"is_active"}, [is_active |-> TRUE])
      r2 == Then(r1,
              generateInstancesInTransaction(r1.db, templateId, BufferSize, failAt))
  IN Transaction(d, r2)

\* the shortfall ensureInstanceBuffer asks generateInstances for; 0 when the
\* template is missing or inactive or the buffer is full
BufferShortfall(d, templateId, minBuffer, today) ==
  IF templateId \notin TemplateIds(d) \/ ~d.templates[templateId].is_active
  THEN 0
  ELSE LET futureInstances == Cardinality(FutureTasksOf(d, templateId, today))
       IN IF futureInstances < minBuffer THEN minBuffer - futureInstances ELSE 0

ensureInstanceBuffer(d, templateId, minBuffer, today, failAt) ==
  CHOOSE result \in
    {IF needed = 0 THEN Ok(d)
     ELSE generateInstances(d, templateId, needed, failAt) :
       needed \in {BufferShortfall(d, templateId, minBuffer, today)}} : TRUE

(***************************************************************************)
(* Work on tasks (src/src/repositories/taskRepository.ts)                  *)
(***************************************************************************)
TaskById(d, id) == CHOOSE t \in d.tasks : t.task_id = id

ReplaceTask(d, old, new) == [d EXCEPT !.tasks = (@ \ {old}) \cup {new}]

updateTask(d, id, status) ==
  IF id \notin TaskIds(d) THEN Fail(d, "TaskNotFound")
  ELSE LET existingTask == TaskById(d, id)
       IN IF status = "DONE" /\ existingTask.status = "DONE"
          THEN Fail(d, "TaskAlreadyDone")
          ELSE Ok(ReplaceTask(d, existingTask,
                              [existingTask EXCEPT !.status = status]))

upsertProgressLog(d, taskId, userId, quantity_done) ==
  IF taskId \notin TaskIds(d) THEN Fail(d, "TaskNotFound")
  ELSE
    LET task == TaskById(d, taskId)
        newCurrentQuantity == task.current_quantity + quantity_done
        started == IF quantity_done > 0 /\ task.status = "PENDING"
                   THEN "IN_PROGRESS" ELSE task.status
        newStatus == IF /\ task.goal_type = "FIXED"
                        /\ task.target_quantity # 0
                        /\ newCurrentQuantity >= task.target_quantity
                     THEN "DONE" ELSE started
    IN IF task.status \in {"ARCHIVED", "REJECTED", "DONE"}
       THEN Fail(d, "TaskNotProgressable")
       ELSE IF [task_id |-> taskId, user_id |-> userId] \notin d.assignments
       THEN Fail(d, "AssignmentNotFound")
       ELSE Ok(ReplaceTask(d, task,
                 [task EXCEPT !.current_quantity = newCurrentQuantity,
                              !.status = newStatus]))

(***************************************************************************)
(* Inputs of the operations                                                *)
(***************************************************************************)
MaxTemplates == 1

MaxTaskId == 60

MaxProcs == 2

MaxSweepTemplates == 2

MaxTicks == 1

MaxSteps == 3

MaxQuantity == 1

\* the wall clock starts on Wednesday 2026-02-04, in the middle of the day
ClockStart == Ts(2026, 2, 4, 1)

FailPoints == {"none", "tasks", "assignments", "events"}

WithGoal(template, goal, target) ==
  [template EXCEPT !.goal_type = goal, !.target_quantity = target]

\* a daily rule that started 13 days ago, a daily rule from today that ends in
\* 5 days with a fixed goal, and Monday/Wednesday/Friday from this week's Monday
TemplateInputs ==
  {Template(Rule("DAILY", 1, <<>>, 0), addDays(ClockStart, -13), NoDate, TRUE, "u1"),
   WithGoal(Template(Rule("DAILY", 1, <<>>, 0), ClockStart,
                     addDays(ClockStart, 5), TRUE, "u1"), "FIXED", 1),
   Template(Rule("WEEKLY", 1, <<1, 3, 5>>, 0), addDays(ClockStart, -2), NoDate, TRUE, "u1")}

\* no list, two users, and a list with an id that is no user
AssigneeInputs == {NoAssignees, Assignees({"u1", "u2"}), Assignees({"u1", "u9"})}

\* the assignee list of an update: none, or one user
UpdateAssigneeInputs == {NoAssignees, Assignees({"u2"})}

\* the lists given to setDefaultAssignees
SetAssigneeInputs == {{"u2"}, {"u9"}}

Update(fields, vals) == [fields |-> fields, vals |-> vals]

UpdateInputs ==
  {Update({"interval"}, [interval |-> 2]),
   Update({"title"}, [title |-> "B"]),
   Update({"end_date"}, [end_date |-> NoDate]),
   Update({"end_date"}, [end_date |-> addDays(ClockStart, 3)]),
   Update({"start_date"}, [start_date |-> addDays(ClockStart, 1)])}

\* the createTemplate calls: each template with the two users; the daily
\* template without end date also with no list and with the invalid list
CreateCalls ==
  {c \in TemplateInputs \X AssigneeInputs :
     \/ c[2].ids = {"u1", "u2"}
     \/ c[1].frequency = "DAILY" /\ c[1].end_date = NoDate}

\* the updateTemplate calls: each update without an assignee list; the title
\* and the interval update also with one
UpdateCalls ==
  {c \in UpdateInputs \X UpdateAssigneeInputs :
     ~c[2].given \/ c[1].fields \subseteq {"title", "interval"}}

BufferInputs == {2, BufferSize}

CountInputs == {2}

\* the tasks a user works on: those dated yesterday, today or tomorrow
TouchOffsets == {-1, 0, 1}

TouchableTasks(d, clock) ==
  {t \in d.tasks :
     differenceInDays(t.occurrence_date, Today(clock)) \in TouchOffsets}

(***************************************************************************)
(* State and actions                                                       *)
(***************************************************************************)
\* the last operation: its name, template, argument and error, and the task
\* ids it created and deleted
Last(op, templateId, arg, err, before, after) ==
  [op |-> op, template |-> templateId, arg |-> arg, err |-> err,
   created |-> TaskIds(after) \ TaskIds(before),
   deleted |-> TaskIds(before) \ TaskIds(after)]

\* a caller of ensureInstanceBuffer or generateInstances and its position in
\* the call: the values it has read, the dates it is about to insert
ProcIds == 1..MaxProcs

ProcIdle ==
  [pc |-> "idle", op |-> "none", template |-> 0, arg |-> 0, needed |-> 0,
   occurrences |-> <<>>, assignees |-> {}, err |-> "none"]

NoProcs == [p \in ProcIds |-> ProcIdle]

\* the scheduler's sweep over the active templates
SweepIdle ==
  [pc |-> "idle", active |-> {}, queue |-> <<>>, called |-> {}, err |-> "none"]

WithinCaps(d) == d.nextTaskId <= MaxTaskId + 1

Init ==
  /\ db = EmptyDb
  /\ now = ClockStart
  /\ last = Last("init", 0, 0, "none", EmptyDb, EmptyDb)
  /\ steps = 0
  /\ procs = NoProcs
  /\ sweep = SweepIdle
  /\ calc = CalcIdle

\* one whole operation of the service: r is its result
Commit(op, templateId, arg, r) ==
  /\ steps < MaxSteps
  /\ steps' = steps + 1
  /\ WithinCaps(r.db)
  /\ db' = r.db
  /\ last' = Last(op, templateId, arg, r.err, db, r.db)
  /\ UNCHANGED <<now, procs, sweep, calc>>

CreateTemplate ==
  \E c \in CreateCalls :
    /\ db.nextTemplateId <= MaxTemplates
    /\ Commit("createTemplate", db.nextTemplateId, c[2],
              createTemplate(db, c[1], c[2], "none"))

GenerateInstances ==
  \E t \in TemplateIds(db), count \in CountInputs, failAt \in FailPoints :
    Commit("generateInstances", t, count, generateInstances(db, t, count, failAt))

EnsureInstanceBuffer ==
  \E t \in TemplateIds(db), minBuffer \in BufferInputs :
    Commit("ensureInstanceBuffer", t, minBuffer,
           ensureInstanceBuffer(db, t, minBuffer, Today(now), "none"))

\* the argument recorded for an update: the fields it touches, the assignee
\* list and whether the regeneration branch was taken
UpdateArg(u, a) ==
  [fields |-> u.fields, assignees |-> a, regenerated |-> RecurrenceChanged(u)]

UpdateTemplate ==
  \E t \in TemplateIds(db), c \in UpdateCalls :
    Commit("updateTemplate", t, UpdateArg(c[1], c[2]),
           updateTemplate(db, t, c[1], c[2], Today(now), "none"))

SetDefaultAssignees ==
  \E t \in TemplateIds(db), ids \in SetAssigneeInputs :
    Commit("setDefaultAssignees", t, ids, setDefaultAssignees(db, t, ids))

DeactivateTemplate ==
  \E t \in TemplateIds(db) :
    Commit("deactivateTemplate", t, 0, deactivateTemplate(db, t))

ReactivateTemplate ==
  \E t \in TemplateIds(db) :
    Commit("reactivateTemplate", t, 0, reactivateTemplate(db, t, "none"))

\* the argument recorded for a delete: what the template had before it, the
\* statuses of its occurrences, whether one was past, had progress or an
\* assignment, and how many default assignees there were
DeleteArg(d, templateId, today) ==
  [statuses  |-> {t.status : t \in TasksOf(d, templateId)},
   past      |-> \E t \in TasksOf(d, templateId) : t.occurrence_date < today,
   progress  |-> \E t \in TasksOf(d, templateId) : t.current_quantity > 0,
   assigned  |-> \E t \in TasksOf(d, templateId) :
                   \E a \in d.assignments : a.task_id = t.task_id,
   assignees |-> Cardinality(AssigneesOf(d, templateId))]

DeleteTemplate ==
  \E t \in TemplateIds(db) :
    Commit("deleteTemplate", t, DeleteArg(db, t, Today(now)), deleteTemplate(db, t))

UpdateTask ==
  \E t \in TouchableTasks(db, now), status \in {"IN_PROGRESS", "DONE"} :
    Commit("updateTask", t.recurring_template_id, t.task_id,
           updateTask(db, t.task_id, status))

UpsertProgressLog ==
  \E t \in TouchableTasks(db, now), u \in Users :
    /\ t.current_quantity < MaxQuantity
    /\ Commit("upsertProgressLog", t.recurring_template_id, t.task_id,
              upsertProgressLog(db, t.task_id, u, 1))

Tick ==
  /\ now < ClockStart + MaxTicks
  /\ now' = now + 1
  /\ last' = Last("tick", 0, 0, "none", db, db)
  /\ UNCHANGED <<db, steps, procs, sweep, calc>>

Next ==
  \/ CreateTemplate
  \/ GenerateInstances
  \/ EnsureInstanceBuffer
  \/ UpdateTemplate
  \/ SetDefaultAssignees
  \/ DeactivateTemplate
  \/ ReactivateTemplate
  \/ DeleteTemplate
  \/ UpdateTask
  \/ UpsertProgressLog
  \/ Tick

Spec == Init /\ [][Next]_vars

(***************************************************************************)
(* Concurrent callers (SpecConc): ensureInstanceBuffer and                 *)
(* generateInstances run statement by statement, so that two calls, and    *)
(* the template operations, interleave between a call's reads and its      *)
(* insert.  A transaction reads one snapshot, taken at its first read, and *)
(* its insert is checked against the rows committed by then.               *)
(***************************************************************************)
ProcStep(p, new, d) ==
  /\ procs' = [procs EXCEPT ![p] = new]
  /\ db' = d
  /\ last' = Last("step", new.template, p, new.err, db, d)
  /\ UNCHANGED <<now, steps, sweep, calc>>

Done(proc, err) == [proc EXCEPT !.pc = "done", !.err = err]

\* a caller invokes ensureInstanceBuffer(templateId, minBuffer)
EnsureCall ==
  \E p \in ProcIds, t \in TemplateIds(db) :
    /\ procs[p].pc \in {"idle", "done"}
    /\ steps < MaxSteps
    /\ procs' = [procs EXCEPT ![p] =
         [ProcIdle EXCEPT !.pc = "load", !.op = "ensureInstanceBuffer",
                          !.template = t, !.arg = BufferSize]]
    /\ steps' = steps + 1
    /\ last' = Last("call", t, p, "none", db, db)
    /\ UNCHANGED <<db, now, sweep, calc>>

\* a caller invokes generateInstances(templateId, count)
GenerateCall ==
  \E p \in ProcIds, t \in TemplateIds(db), count \in CountInputs :
    /\ procs[p].pc \in {"idle", "done"}
    /\ steps < MaxSteps
    /\ procs' = [procs EXCEPT ![p] =
         [ProcIdle EXCEPT !.pc = "begin", !.op = "generateInstances",
                          !.template = t, !.arg = count, !.needed = count]]
    /\ steps' = steps + 1
    /\ last' = Last("call", t, p, "none", db, db)
    /\ UNCHANGED <<db, now, sweep, calc>>

\* templateRepository.getTemplateById and the is_active guard
EnsureLoad ==
  \E p \in ProcIds :
    /\ procs[p].pc = "load"
    /\ LET t == procs[p].template
       IN IF t \notin TemplateIds(db) \/ ~db.templates[t].is_active
          THEN ProcStep(p, Done(procs[p], "none"), db)
          ELSE ProcStep(p, [procs[p] EXCEPT !.pc = "count"], db)

\* prisma.task.count of the future occurrences and the shortfall
EnsureCount ==
  \E p \in ProcIds :
    /\ procs[p].pc = "count"
    /\ LET t == procs[p].template
           futureInstances == Cardinality(FutureTasksOf(db, t, Today(now)))
       IN IF futureInstances < procs[p].arg
          THEN ProcStep(p, [procs[p] EXCEPT !.pc = "begin",
                              !.needed = procs[p].arg - futureInstances], db)
          ELSE ProcStep(p, Done(procs[p], "none"), db)

\* the transaction of generateInstances reads the template, the existing dates
\* and the assignees, and computes the dates to create
TxRead ==
  \E p \in ProcIds :
    /\ procs[p].pc = "begin"
    /\ LET t == procs[p].template
           occurrences == PlannedOccurrences(db, t, procs[p].needed)
       IN IF occurrences = <<>>
          THEN ProcStep(p, Done(procs[p], "none"), db)
          ELSE ProcStep(p, [procs[p] EXCEPT !.pc = "insert",
                              !.occurrences = occurrences,
                              !.assignees = AssigneesOf(db, t)], db)

\* the batch inserts and the commit; a rejected insert rolls the transaction
\* back and the error reaches the caller
TxInsert ==
  \E p \in ProcIds :
    /\ procs[p].pc = "insert"
    /\ LET t == procs[p].template
           template == IF t \in TemplateIds(db) THEN db.templates[t]
                       ELSE [created_by |-> "u1"]
           r == Transaction(db,
                  InsertInstances(db, t, template, procs[p].occurrences,
                                  procs[p].assignees, "none"))
       IN /\ WithinCaps(r.db)
          /\ ProcStep(p, Done(procs[p], r.err), r.db)

NextConc ==
  \/ CreateTemplate
  \/ UpdateTemplate
  \/ DeactivateTemplate
  \/ ReactivateTemplate
  \/ EnsureCall
  \/ GenerateCall
  \/ EnsureLoad
  \/ EnsureCount
  \/ TxRead
  \/ TxInsert

SpecConc == Init /\ [][NextConc]_vars

(***************************************************************************)
(* The scheduler's sweep (SpecSweep), over templates created beforehand    *)
(***************************************************************************)
\* the stores that hold n more templates than d, each made by createTemplate
RECURSIVE Populated(_, _)
Populated(d, n) ==
  IF n = 0 THEN {d}
  ELSE UNION {Populated(createTemplate(d, data, Assignees({"u1"}), "none").db,
                        n - 1) : data \in TemplateInputs}

InitSweep ==
  /\ db \in Populated(EmptyDb, MaxSweepTemplates)
  /\ now = ClockStart
  /\ last = Last("init", 0, 0, "none", EmptyDb, EmptyDb)
  /\ steps = 0
  /\ procs = NoProcs
  /\ sweep = SweepIdle
  /\ calc = CalcIdle

ActiveTemplates(d) == {t \in TemplateIds(d) : d.templates[t].is_active}

RECURSIVE IdsInOrder(_)
IdsInOrder(S) ==
  IF S = {} THEN <<>>
  ELSE LET x == CHOOSE y \in S : \A z \in S : y <= z
       IN <<x>> \o IdsInOrder(S \ {x})

\* ensureAllTemplatesHaveInstances reads the active templates
SweepStart ==
  /\ sweep.pc \in {"idle", "done", "failed"}
  /\ sweep' = [pc |-> IF ActiveTemplates(db) = {} THEN "done" ELSE "running",
               active |-> ActiveTemplates(db),
               queue |-> IdsInOrder(ActiveTemplates(db)),
               called |-> {}, err |-> "none"]
  /\ last' = Last("sweepStart", 0, 0, "none", db, db)
  /\ UNCHANGED <<db, now, steps, procs, calc>>

\* one pass of the for loop: await ensureInstanceBuffer(template.id, 12); an
\* error of the call leaves the loop and the function
SweepStep ==
  \E failAt \in FailPoints :
    /\ sweep.pc = "running"
    /\ LET t == Head(sweep.queue)
           r == ensureInstanceBuffer(db, t, BufferSize, Today(now), failAt)
       IN /\ WithinCaps(r.db)
          /\ db' = r.db
          /\ last' = Last("ensureInstanceBuffer", t, BufferSize, r.err, db, r.db)
          /\ sweep' = [sweep EXCEPT
               !.called = @ \cup {t},
               !.queue = Tail(@),
               !.err = r.err,
               !.pc = IF r.err # "none" THEN "failed"
                      ELSE IF Tail(sweep.queue) = <<>> THEN "done"
                      ELSE "running"]
    /\ UNCHANGED <<now, steps, procs, calc>>

NextSweep ==
  \/ SweepStart
  \/ SweepStep
  \/ DeactivateTemplate
  \/ Tick

SpecSweep == InitSweep /\ [][NextSweep]_vars

(***************************************************************************)
(* Properties of the sequential service (Spec)                             *)
(***************************************************************************)
AssignmentsOfTask(d, id) == {a \in d.assignments : a.task_id = id}

\* C1: a regeneration (updateTemplate with a changed recurrence field) deletes
\* exactly the occurrences of the template that are dated today or later, are
\* PENDING and have quantity 0; every other occurrence of the template is
\* still there afterwards with the same fields and the same assignments.
C1_RegenerationDeletesOnlyUntouchedFuture ==
  [][(last'.op = "updateTemplate" /\ last'.arg.regenerated /\ last'.err = "none") =>
       \A o \in TasksOf(db, last'.template) :
         IF /\ o.occurrence_date >= startOfDay(now)
            /\ o.status = "PENDING"
            /\ o.current_quantity = 0
         THEN o.task_id \notin TaskIds(db')
         ELSE /\ o \in db'.tasks
              /\ AssignmentsOfTask(db', o.task_id) = AssignmentsOfTask(db, o.task_id)
    ]_vars

\* a regeneration that deleted untouched future occurrences and kept both a
\* started future occurrence (with its assignment) and a past one
C1_Witness ==
  /\ last.op = "updateTemplate" /\ last.arg.regenerated /\ last.err = "none"
  /\ last.deleted # {}
  /\ \E o \in TasksOf(db, last.template) :
       /\ o.task_id \notin last.created
       /\ o.occurrence_date >= startOfDay(now)
       /\ o.status = "IN_PROGRESS"
       /\ AssignmentsOfTask(db, o.task_id) # {}
  /\ \E o \in TasksOf(db, last.template) :
       o.task_id \notin last.created /\ o.occurrence_date < startOfDay(now)

\* C3: a second ensureInstanceBuffer(t, 12) right after a first one creates
\* nothing and leaves the occurrences as they were.
C3_IdempotentTopUp ==
  [][(/\ last.op = "ensureInstanceBuffer" /\ last.arg = BufferSize
      /\ last.err = "none"
      /\ last'.op = "ensureInstanceBuffer" /\ last'.arg = BufferSize
      /\ last'.template = last.template) =>
       (db'.tasks = db.tasks /\ last'.created = {})
    ]_vars

\* C4: after ensureInstanceBuffer(t, minBuffer) on an active template without
\* end date, at least minBuffer occurrences are dated today or later.
C4_BufferFilled ==
  (/\ last.op = "ensureInstanceBuffer" /\ last.err = "none"
   /\ last.template \in TemplateIds(db)
   /\ db.templates[last.template].is_active
   /\ db.templates[last.template].end_date = NoDate) =>
     Cardinality({o \in TasksOf(db, last.template) :
                    o.occurrence_date >= startOfDay(now)}) >= last.arg

\* C5: deactivateTemplate only clears is_active: the occurrences, their
\* assignments and the default assignees stay as they were; and a
\* generateInstances or ensureInstanceBuffer call on an inactive template
\* creates no occurrence.
C5_DeactivateKeepsOccurrencesAndStopsGeneration ==
  [][/\ (last'.op = "deactivateTemplate" /\ last'.err = "none") =>
          /\ db'.tasks = db.tasks
          /\ db'.assignments = db.assignments
          /\ db'.assignees = db.assignees
          /\ db'.templates[last'.template] =
               [db.templates[last'.template] EXCEPT !.is_active = FALSE]
     /\ (/\ last'.op \in {"generateInstances", "ensureInstanceBuffer"}
         /\ last'.template \in TemplateIds(db)
         /\ ~db.templates[last'.template].is_active) =>
          (db'.tasks = db.tasks /\ db'.assignments = db.assignments)
    ]_vars

\* ensureInstanceBuffer has run on a deactivated template whose occurrences
\* are all still there and whose buffer is short
C5_Witness ==
  /\ last.op = "ensureInstanceBuffer" /\ last.err = "none"
  /\ last.template \in TemplateIds(db)
  /\ ~db.templates[last.template].is_active
  /\ Cardinality(TasksOf(db, last.template)) = BufferSize
  /\ Cardinality({o \in TasksOf(db, last.template) :
                    o.occurrence_date >= startOfDay(now)}) < last.arg
  /\ \E e \in db.events : e.type = "RECURRING_TEMPLATE_DEACTIVATED"

\* C8: a generateInstances call that fails at one of its batch inserts leaves
\* no occurrence, assignment or event behind, and the retry creates each
\* missing date exactly once, fully assigned.
C8_GenerateAllOrNothing ==
  [][/\ (last'.op = "generateInstances" /\ last'.err # "none") => db' = db
     /\ (/\ last.op = "generateInstances" /\ last.err \in StoreErrors
         /\ last'.op = "generateInstances" /\ last'.err = "none"
         /\ last'.template = last.template /\ last'.arg = last.arg) =>
          LET t       == last.template
              missing == SeqToSet(PlannedOccurrences(db, t, last.arg))
              new     == {o \in db'.tasks : o.task_id \in last'.created}
          IN /\ {o.occurrence_date : o \in new} = missing
             /\ \A m \in missing :
                  Cardinality({o \in TasksOf(db', t) : o.occurrence_date = m}) = 1
             /\ \A o \in new :
                  {a.user_id : a \in AssignmentsOfTask(db', o.task_id)}
                    = AssigneesOf(db, t)
    ]_vars

\* generateInstances has failed at the assignment insert, after its task rows
\* were written, on a template that has occurrences to create
C8_Witness ==
  /\ last.op = "generateInstances" /\ last.err = "StoreError(assignments)"
  /\ PlannedOccurrences(db, last.template, last.arg) # <<>>
  /\ AssigneesOf(db, last.template) # {}

\* C14: an updateTemplate that changes frequency, interval, days_of_week,
\* day_of_month, start_date or end_date (a new value, or end_date cleared to
\* null) regenerates: no untouched future occurrence of before survives; an
\* update that touches none of these fields leaves the occurrences alone.
C14_RegeneratesOnRecurrenceChange ==
  [][(last'.op = "updateTemplate" /\ last'.err = "none") =>
       LET t == last'.template
       IN /\ (\E f \in RecurrenceFields :
                db'.templates[t][f] # db.templates[t][f]) =>
               \A o \in Regenerable(db, t, startOfDay(now)) :
                 o.task_id \notin TaskIds(db')
          /\ (last'.arg.fields \cap RecurrenceFields = {}) =>
               db'.tasks = db.tasks
    ]_vars

\* C15: a regeneration creates no occurrence dated before today, and the
\* occurrences dated before today are the same before and after it.
C15_RegenerationKeepsHistory ==
  [][(last'.op = "updateTemplate" /\ last'.arg.regenerated /\ last'.err = "none") =>
       /\ \A o \in db'.tasks :
            o.task_id \in last'.created => o.occurrence_date >= startOfDay(now)
       /\ {o \in db'.tasks : o.occurrence_date < startOfDay(now)}
            = {o \in db.tasks : o.occurrence_date < startOfDay(now)}
    ]_vars

\* C16: reactivateTemplate on an inactive template creates no occurrence dated
\* before the day of the reactivation.
C16_ReactivateNoCatchUp ==
  [][(/\ last'.op = "reactivateTemplate" /\ last'.err = "none"
      /\ ~db.templates[last'.template].is_active) =>
       \A o \in db'.tasks :
         o.task_id \in last'.created => o.occurrence_date >= startOfDay(now)
    ]_vars

\* C17: reactivateTemplate creates at most the shortfall, 12 minus the number
\* of occurrences dated today or later, and nothing when there is none.
C17_ReactivateTopsUpShortfall ==
  [][(/\ last'.op = "reactivateTemplate" /\ last'.err = "none"
      /\ ~db.templates[last'.template].is_active) =>
       LET future == Cardinality({o \in TasksOf(db, last'.template) :
                                    o.occurrence_date >= startOfDay(now)})
       IN Cardinality(last'.created)
            <= (IF future >= BufferSize THEN 0 ELSE BufferSize - future)
    ]_vars

\* C18: createTemplate with an assignee id that is no user fails with the
\* error that lists the invalid ids, and no template, default assignee,
\* occurrence, assignment or event of the call is stored.
C18_InvalidAssigneesRejected ==
  [][(/\ last'.op = "createTemplate"
      /\ last'.arg.given /\ last'.arg.ids \ Users # {}) =>
       /\ last'.err # "none"
       /\ (last'.arg.ids \ Users = {"u9"}) =>
            last'.err = "Invalid user IDs: u9. These users do not exist."
       /\ db'.templates = db.templates
       /\ db'.assignees = db.assignees
       /\ db'.tasks = db.tasks
       /\ db'.assignments = db.assignments
       /\ db'.events = db.events
    ]_vars

\* createTemplate was called with a list holding a user and an unknown id
C18_Witness ==
  /\ last.op = "createTemplate"
  /\ last.arg.given /\ last.arg.ids \cap Users # {} /\ last.arg.ids \ Users # {}
  /\ db.templates = <<>>

\* C19: each occurrence a generateInstances or ensureInstanceBuffer call
\* creates gets one assignment per default assignee the template has at that
\* time and none for another user (|new| x |assignees| rows); the assignments
\* of the occurrences that existed are not touched.
C19_AssignmentsCrossProduct ==
  [][(/\ last'.op \in {"generateInstances", "ensureInstanceBuffer"}
      /\ last'.err = "none") =>
       LET defaults == {x.user_id : x \in {a \in db.assignees :
                                             a.template_id = last'.template}}
       IN /\ \A id \in last'.created :
               {a.user_id : a \in AssignmentsOfTask(db', id)} = defaults
          /\ Cardinality({a \in db'.assignments : a.task_id \in last'.created})
               = Cardinality(last'.created) * Cardinality(defaults)
          /\ \A o \in db.tasks :
               AssignmentsOfTask(db', o.task_id) = AssignmentsOfTask(db, o.task_id)
    ]_vars

\* generateInstances added occurrences, each with two assignments, to a
\* template that already had occurrences
C19_Witness ==
  /\ last.op = "generateInstances" /\ last.err = "none"
  /\ Cardinality(last.created) >= 2
  /\ \A id \in last.created : Cardinality(AssignmentsOfTask(db, id)) = 2
  /\ \E o \in TasksOf(db, last.template) : o.task_id \notin last.created

\* C20: replacing the default assignees (setDefaultAssignees, or updateTemplate
\* with an assignee list and no regeneration) changes no occurrence and no
\* assignment; the occurrences generated next get the new assignees.
C20_AssigneeReplacementNotRetroactive ==
  [][/\ (last'.op = "setDefaultAssignees" /\ last'.err = "none") =>
          /\ db'.tasks = db.tasks /\ db'.assignments = db.assignments
          /\ AssigneesOf(db', last'.template) = last'.arg
     /\ (/\ last'.op = "updateTemplate" /\ last'.err = "none"
         /\ last'.arg.assignees.given /\ ~last'.arg.regenerated) =>
          /\ db'.tasks = db.tasks /\ db'.assignments = db.assignments
          /\ AssigneesOf(db', last'.template) = last'.arg.assignees.ids
     /\ (/\ last.op = "setDefaultAssignees" /\ last.err = "none"
         /\ last'.op = "generateInstances" /\ last'.err = "none"
         /\ last'.template = last.template) =>
          \A id \in last'.created :
            {a.user_id : a \in AssignmentsOfTask(db', id)} = last.arg
    ]_vars

\* after a replacement of {u1, u2} by {u2}, a generation created occurrences
\* assigned to u2 alone next to older ones still assigned to both
C20_Witness ==
  /\ last.op = "generateInstances" /\ last.err = "none"
  /\ \E id \in last.created :
       {a.user_id : a \in AssignmentsOfTask(db, id)} = {"u2"}
  /\ \E o \in TasksOf(db, last.template) :
       /\ o.task_id \notin last.created
       /\ {a.user_id : a \in AssignmentsOfTask(db, o.task_id)} = {"u1", "u2"}

\* C21: after deleteTemplate(t) the template row is gone and no occurrence of
\* t, no default assignee of t and no assignment or event of a deleted
\* occurrence remains, whatever the occurrences' date, status or progress
C21_DeleteTemplateCascades ==
  (last.op = "deleteTemplate" /\ last.err = "none") =>
    /\ last.template \notin TemplateIds(db)
    /\ TasksOf(db, last.template) = {}
    /\ AssigneesOf(db, last.template) = {}
    /\ \A a \in db.assignments : a.task_id \in TaskIds(db)
    /\ \A e \in db.events : e.task_id \in TaskIds(db)

\* a template with two default assignees is deleted while it has a past
\* occurrence, a DONE occurrence with progress, a PENDING one, and assignments
C21_Witness ==
  /\ last.op = "deleteTemplate"
  /\ last.err = "none"
  /\ last.arg.past
  /\ last.arg.progress
  /\ last.arg.assigned
  /\ "DONE" \in last.arg.statuses
  /\ "PENDING" \in last.arg.statuses
  /\ last.arg.assignees = 2
  /\ last.deleted # {}

\* C26: an updateTemplate of a template that is inactive deletes none of its
\* occurrences
C26_InactiveUpdateDeletesNothing ==
  (/\ last.op = "updateTemplate"
   /\ last.err = "none"
   /\ ~db.templates[last.template].is_active) =>
    last.deleted = {}

(***************************************************************************)
(* The calculator on its own (SpecCalc): calculateOccurrences applied to   *)
(* a template, a count and a set of existing dates                         *)
(***************************************************************************)
MaxWalk == 30

\* the days of a long history: an occurrence on each of them exists
MaxHistory == 100

\* the existing dates: some of the first days, or, for a daily template
\* without end date, every day of a long history
CalcExisting(template) ==
  SUBSET {addDays(startOfDay(template.start_date), k) : k \in ExistingOffsets}
  \cup (IF template.end_date = NoDate /\ template.frequency = "DAILY"
        THEN {{addDays(startOfDay(template.start_date), k) : k \in 0..MaxHistory}}
        ELSE {})

InitCalc ==
  /\ db = EmptyDb
  /\ now = ClockStart
  /\ last = Last("init", 0, 0, "none", EmptyDb, EmptyDb)
  /\ steps = 0
  /\ procs = NoProcs
  /\ sweep = SweepIdle
  /\ \E t \in CalcTemplates, n \in 1..MaxCount :
       \E e \in CalcExisting(t) :
         calc = [phase |-> "input", template |-> t, count |-> n,
                 existing |-> e, result |-> <<>>]

CalculateOccurrences ==
  /\ calc.phase = "input"
  /\ calc' = [calc EXCEPT
       !.phase = "done",
       !.result = calculateOccurrences(calc.template, calc.count, calc.existing)]
  /\ UNCHANGED <<db, now, last, steps, procs, sweep>>

NextCalc == CalculateOccurrences

SpecCalc == InitCalc /\ [][NextCalc]_vars

\* the first n + 1 dates the rule reaches from its start date
RECURSIVE WalkDates(_, _)
WalkDates(template, n) ==
  IF n = 0 THEN <<startOfDay(template.start_date)>>
  ELSE LET w == WalkDates(template, n - 1)
       IN Append(w, getNextOccurrence(template, w[Len(w)]))

\* the i-th date of a walk is an occurrence the rule offers: any date after
\* the start date, and the start date when it matches the pattern
Offered(template, existing, walk, i) ==
  /\ walk[i] \notin existing
  /\ i = 1 => dateMatchesPattern(template, walk[1])

\* C9: with an end date, no returned date is after the end date, and a date of
\* the walk that falls on the end date is returned when it is not an existing
\* date and fewer than count dates precede it.
C9_EndDateInclusive ==
  (calc.phase = "done" /\ calc.template.end_date # NoDate) =>
    LET t    == calc.template
        res  == SeqToSet(calc.result)
        walk == WalkDates(t, MaxWalk)
    IN /\ \A d \in res : ~(d > t.end_date)
       /\ \A i \in 1..Len(walk) :
            (/\ DayOf(walk[i]) = DayOf(t.end_date)
             /\ Offered(t, calc.existing, walk, i)
             /\ Cardinality({j \in 1..(i - 1) : Offered(t, calc.existing, walk, j)})
                  < calc.count)
            => walk[i] \in res

\* the walk of a rule whose end date is given with a time of day stopped at
\* the end date: the last returned date is the end date, after earlier ones
C9_Witness ==
  /\ calc.phase = "done"
  /\ calc.template.end_date # NoDate
  /\ TimeOfDay(calc.template.end_date) # 0
  /\ 1 < Len(calc.result) /\ Len(calc.result) < calc.count
  /\ calc.result[Len(calc.result)] = startOfDay(calc.template.end_date)

\* C10: WEEKLY on {1, 3, 5}, interval 1, from a Monday: the first five dates
\* are the start date and 2, 4, 7 and 9 days after it.
C10_WeeklyMultiDayCadence ==
  (/\ calc.phase = "done"
   /\ calc.template.frequency = "WEEKLY"
   /\ SeqToSet(calc.template.days_of_week) = {1, 3, 5}
   /\ calc.template.interval = 1
   /\ getDay(calc.template.start_date) = 1
   /\ calc.template.end_date = NoDate
   /\ calc.existing = {}
   /\ calc.count >= 5) =>
    LET s == startOfDay(calc.template.start_date)
    IN SubSeq(calc.result, 1, 5) =
         <<s, addDays(s, 2), addDays(s, 4), addDays(s, 7), addDays(s, 9)>>

\* C11: WEEKLY on {1}, interval 2, from a Monday: every returned date is the
\* start date plus a multiple of 14 days, and with no end date and no existing
\* dates the result is the start date, +14, +28, ... in order.
C11_BiweeklySkipsOddWeeks ==
  (/\ calc.phase = "done"
   /\ calc.template.frequency = "WEEKLY"
   /\ calc.template.days_of_week = <<1>>
   /\ calc.template.interval = 2
   /\ getDay(calc.template.start_date) = 1) =>
    LET s == startOfDay(calc.template.start_date)
    IN /\ \A i \in 1..Len(calc.result) :
            \E k \in 0..MaxWalk : calc.result[i] = addDays(s, 14 * k)
       /\ (calc.template.end_date = NoDate /\ calc.existing = {}) =>
            calc.result = [i \in 1..calc.count |-> addDays(s, 14 * (i - 1))]

\* three or more Mondays of a biweekly rule were returned
C11_Witness ==
  /\ calc.phase = "done"
  /\ calc.template.frequency = "WEEKLY"
  /\ calc.template.days_of_week = <<1>>
  /\ calc.template.interval = 2
  /\ getDay(calc.template.start_date) = 1
  /\ calc.template.end_date = NoDate /\ calc.existing = {}
  /\ Len(calc.result) >= 3

\* the date the walk was at before it produced the i-th returned date, when no
\* date exists yet
CameFrom(template, result, i) ==
  IF i = 1 THEN startOfDay(template.start_date) ELSE result[i - 1]

\* date `to` lies n months after the month of `from`, on day min(d, length of
\* that month)
ClampedMonthsAfter(from, to, n, d) ==
  LET a == CivilFromDays(DayOf(from))
      b == CivilFromDays(DayOf(to))
  IN /\ b.y * 12 + b.m = a.y * 12 + a.m + n
     /\ b.d = Min(d, DaysInMonth(b.y, b.m))

\* C12: MONTHLY with a day of month d and interval n: each date the walk
\* produces lies n months after the month of the date it came from, on day
\* min(d, days in that month); 31 from 31 January gives 28 February (29 in a
\* leap year).
C12_MonthClamping ==
  (/\ calc.phase = "done"
   /\ calc.template.frequency = "MONTHLY"
   /\ calc.template.day_of_month # 0
   /\ calc.existing = {}) =>
    LET t == calc.template
        s == startOfDay(t.start_date)
    IN /\ \A i \in 1..Len(calc.result) :
            \/ i = 1 /\ calc.result[1] = s
            \/ ClampedMonthsAfter(CameFrom(t, calc.result, i), calc.result[i],
                                  t.interval, t.day_of_month)
       /\ (/\ t.day_of_month = 31 /\ t.interval = 1 /\ Len(calc.result) >= 2
           /\ calc.result[1] = s) =>
            (/\ s = Ts(2026, 1, 31, 0) => calc.result[2] = Ts(2026, 2, 28, 0)
             /\ s = Ts(2028, 1, 31, 0) => calc.result[2] = Ts(2028, 2, 29, 0))

\* day 31 monthly from 31 January of a leap year: the second date is in
\* February
C12_Witness ==
  /\ calc.phase = "done"
  /\ calc.template.frequency = "MONTHLY"
  /\ calc.template.day_of_month = 31 /\ calc.template.interval = 1
  /\ calc.existing = {}
  /\ startOfDay(calc.template.start_date) = Ts(2028, 1, 31, 0)
  /\ Len(calc.result) >= 3
  /\ calc.result[2] = Ts(2028, 2, 29, 0)

\* C13: DAILY with interval k, no end date and no existing dates: the result
\* is the start date, +k, ..., +(n-1)*k days, in order.
C13_DailyOccurrences ==
  (/\ calc.phase = "done"
   /\ calc.template.frequency = "DAILY"
   /\ calc.template.end_date = NoDate
   /\ calc.existing = {}) =>
    calc.result =
      [i \in 1..calc.count |->
         addDays(startOfDay(calc.template.start_date),
                 (i - 1) * calc.template.interval)]

\* three or more dates of a daily rule with an interval above 1
C13_Witness ==
  /\ calc.phase = "done"
  /\ calc.template.frequency = "DAILY"
  /\ calc.template.interval > 1
  /\ calc.template.end_date = NoDate
  /\ calc.existing = {}
  /\ Len(calc.result) >= 3

\* the loop stopped at the safety limit: count x 100 iterations were run and
\* fewer than count dates were collected
CapReached(walk, count) ==
  Len(walk.occurrences) < count /\ walk.iterations >= count * 100

\* the largest count of the second of two generation runs
MaxSecondCount == 2

\* C22: from the same template and existing dates, a generation of a dates
\* followed by a generation of b dates creates the same set of dates as one
\* generation of a + b dates, when no run stops at the iteration cap
C22_GenerationReproducible ==
  calc.phase = "done" =>
    \A b \in 1..MaxSecondCount :
      LET t      == calc.template
          a      == calc.count
          first  == OccurrenceWalk(t, a, calc.existing)
          second == OccurrenceWalk(t, b, calc.existing \cup SeqToSet(calc.result))
          whole  == OccurrenceWalk(t, a + b, calc.existing)
      IN (/\ Len(calc.result) < a => ~CapReached(first, a)
          /\ ~CapReached(second, b)
          /\ ~CapReached(whole, a + b))
         => SeqToSet(calc.result) \cup SeqToSet(second.occurrences)
              = SeqToSet(whole.occurrences)

\* a first run of two or more dates that skipped an existing date, after
\* which a second run of two dates finds two further dates
C22_Witness ==
  /\ calc.phase = "done"
  /\ calc.count >= 2
  /\ Len(calc.result) = calc.count
  /\ \E e \in calc.existing : calc.result[1] < e /\ e < calc.result[Len(calc.result)]
  /\ Len(calculateOccurrences(calc.template, 2,
                              calc.existing \cup SeqToSet(calc.result))) = 2

\* C24: every date returned for a WEEKLY rule with days of the week lies in a
\* cycle week counted from the start date: the number of whole weeks between
\* the start date and the date is a multiple of the interval
C24_WeeklyOccurrencesInCycleWeeks ==
  (/\ calc.phase = "done"
   /\ calc.template.frequency = "WEEKLY"
   /\ calc.template.days_of_week # <<>>) =>
    \A i \in 1..Len(calc.result) :
      differenceInWeeks(calc.result[i], startOfDay(calc.template.start_date))
        % calc.template.interval = 0

\* C25: from the start date, from every returned date and from every
\* existing date the step of the walk reaches a strictly later date, the
\* returned dates ascend, the loop runs at most count x 100 iterations, and
\* when it stops at that limit the dates collected so far, fewer than count,
\* are the result
C25_CalculationTerminatesWithinCap ==
  calc.phase = "done" =>
    LET t == calc.template
        w == OccurrenceWalk(t, calc.count, calc.existing)
    IN /\ \A d \in {startOfDay(t.start_date)} \cup SeqToSet(calc.result)
                  \cup calc.existing : getNextOccurrence(t, d) > d
       /\ \A i \in 1..(Len(calc.result) - 1) : calc.result[i + 1] > calc.result[i]
       /\ w.iterations <= calc.count * 100
       /\ CapReached(w, calc.count) =>
            /\ calc.result = w.occurrences
            /\ Len(calc.result) < calc.count

\* a run stopped at the limit: count x 100 steps found existing dates only
C25_Witness ==
  /\ calc.phase = "done"
  /\ CapReached(OccurrenceWalk(calc.template, calc.count, calc.existing), calc.count)
  /\ Len(calc.result) < calc.count
  /\ Cardinality(calc.existing) > calc.count * 100

\* the days searched for the first date that matches a rule's pattern
MaxSearchDays == 62

\* C28: for a WEEKLY rule with days of the week and a MONTHLY rule with a day
\* of the month, both of interval 1, the first date returned when no date
\* exists yet is the earliest date on or after the start date that matches
\* the rule's pattern
C28_FirstOccurrenceIsEarliestMatch ==
  (/\ calc.phase = "done"
   /\ calc.template.interval = 1
   /\ \/ calc.template.frequency = "WEEKLY" /\ calc.template.days_of_week # <<>>
      \/ calc.template.frequency = "MONTHLY" /\ calc.template.day_of_month # 0
   /\ calc.existing = {}
   /\ calc.result # <<>>) =>
    LET s == startOfDay(calc.template.start_date)
    IN \E k \in 0..MaxSearchDays :
         /\ calc.result[1] = addDays(s, k)
         /\ dateMatchesPattern(calc.template, addDays(s, k))
         /\ \A j \in 0..(k - 1) : ~dateMatchesPattern(calc.template, addDays(s, j))

(***************************************************************************)
(* Work on the occurrences of one template created beforehand              *)
(* (SpecProgress):                                                         *)
(* progress logs, status updates of any kind and template edits            *)
(***************************************************************************)
InitProgress ==
  /\ db \in Populated(EmptyDb, 1)
  /\ now = ClockStart
  /\ last = Last("init", 0, 0, "none", EmptyDb, EmptyDb)
  /\ steps = 0
  /\ procs = NoProcs
  /\ sweep = SweepIdle
  /\ calc = CalcIdle

\* a status update of an occurrence that has progress, to any of the working
\* statuses, PENDING included
UpdateTaskStatus ==
  \E t \in TouchableTasks(db, now), status \in {"PENDING", "IN_PROGRESS", "DONE"} :
    /\ t.current_quantity > 0
    /\ Commit("updateTask", t.recurring_template_id, t.task_id,
           updateTask(db, t.task_id, status))

NextProgress ==
  \/ UpsertProgressLog
  \/ UpdateTaskStatus
  \/ UpdateTemplate
  \/ Tick

SpecProgress == InitProgress /\ [][NextProgress]_vars

\* C30: an occurrence on which progress has been recorded (quantity > 0) is
\* neither deleted nor changed by an updateTemplate, and a status update
\* leaves its recorded quantity as it is, so that the protection lasts
C30_ProgressProtectsOccurrence ==
  [][\A t \in db.tasks :
       t.current_quantity > 0 =>
         /\ last'.op = "updateTemplate" => t \in db'.tasks
         /\ last'.op = "updateTask" =>
              \E u \in db'.tasks :
                /\ u.task_id = t.task_id
                /\ u.current_quantity = t.current_quantity]_vars

\* a regenerating update deleted occurrences while a future occurrence with
\* recorded progress, set back to PENDING, stayed
C30_Witness ==
  /\ last.op = "updateTemplate"
  /\ last.err = "none"
  /\ last.arg.regenerated
  /\ last.deleted # {}
  /\ \E t \in db.tasks :
       /\ t.current_quantity > 0
       /\ t.status = "PENDING"
       /\ t.occurrence_date >= Today(now)

(***************************************************************************)
(* The HTTP handler POST /api/recurring-templates (SpecHttp), with the     *)
(* work on the occurrences that follows a creation                         *)
(* (src/src/controllers/templateController.ts, createTemplate)             *)
(***************************************************************************)
\* the handler after its checks of the body: the service creates the
\* template without assignees, then the assigned_users list, when the body
\* has one, is set; a failure of that deletes the template again
createTemplateRequest(d, templateData, assigned_users) ==
  LET r1 == createTemplate(d, templateData, NoAssignees, "none")
  IN IF r1.err # "none" \/ ~assigned_users.given THEN r1
     ELSE IF setDefaultAssignees(r1.db, d.nextTemplateId, assigned_users.ids).err = "none"
     THEN setDefaultAssignees(r1.db, d.nextTemplateId, assigned_users.ids)
     ELSE Fail(deleteTemplate(r1.db, d.nextTemplateId).db,
               setDefaultAssignees(r1.db, d.nextTemplateId, assigned_users.ids).err)

HttpCreateTemplate ==
  \E c \in CreateCalls :
    /\ db.nextTemplateId <= MaxTemplates
    /\ Commit("createTemplateRequest", db.nextTemplateId, c[2],
              createTemplateRequest(db, c[1], c[2]))

NextHttp ==
  \/ HttpCreateTemplate
  \/ EnsureInstanceBuffer
  \/ UpsertProgressLog
  \/ UpdateTask
  \/ DeleteTemplate
  \/ Tick

SpecHttp == Init /\ [][NextHttp]_vars

\* C29: after a creation through the HTTP handler with a list of existing
\* users, every occurrence the creation generated has an assignment for
\* every user of the list
C29_HttpCreateAssignsInitialOccurrences ==
  (/\ last.op = "createTemplateRequest"
   /\ last.err = "none"
   /\ last.arg.given
   /\ last.arg.ids \subseteq Users) =>
    \A id \in last.created, u \in last.arg.ids :
      [task_id |-> id, user_id |-> u] \in db.assignments

(***************************************************************************)
(* The scheduler running again and again (SpecTopUp): one daily or weekly  *)
(* template without end date whose start date lies in the past, and        *)
(* nothing but sweeps and the passing of time.  The cron job starts a      *)
(* sweep whenever none is running and every awaited call returns, hence    *)
(* weak fairness of both steps; the store does not fail here.              *)
(***************************************************************************)
\* how many days before today the template started
StartDaysAgo == {13, 97, 200}

InitTopUp ==
  /\ \E k \in StartDaysAgo, f \in {"DAILY", "WEEKLY"} :
       db = createTemplate(EmptyDb,
              Template(Rule(f, 1, <<>>, 0), addDays(ClockStart, 0 - k), NoDate,
                       TRUE, "u1"),
              Assignees({"u1"}), "none").db
  /\ now = ClockStart
  /\ last = Last("init", 0, 0, "none", EmptyDb, EmptyDb)
  /\ steps = 0
  /\ procs = NoProcs
  /\ sweep = SweepIdle
  /\ calc = CalcIdle

\* one pass of the for loop of the sweep: await ensureInstanceBuffer(id, 12)
SweepPass ==
  /\ sweep.pc = "running"
  /\ db' = ensureInstanceBuffer(db, Head(sweep.queue), BufferSize, Today(now), "none").db
  /\ last' = Last("ensureInstanceBuffer", Head(sweep.queue), BufferSize, "none", db, db')
  /\ sweep' = [sweep EXCEPT
       !.called = @ \cup {Head(sweep.queue)},
       !.queue = Tail(@),
       !.pc = IF Tail(sweep.queue) = <<>> THEN "done" ELSE "running"]
  /\ UNCHANGED <<now, steps, procs, calc>>

NextTopUp ==
  \/ SweepStart
  \/ SweepPass
  \/ Tick

SpecTopUp ==
  InitTopUp /\ [][NextTopUp]_vars /\ WF_vars(SweepStart) /\ WF_vars(SweepPass)

\* every active template without end date has the buffer of occurrences
\* dated today or later
BuffersFull ==
  \A t \in ActiveTemplates(db) :
    db.templates[t].end_date = NoDate =>
      Cardinality(FutureTasksOf(db, t, Today(now))) >= BufferSize

\* C27: with the scheduler sweeping again and again and nothing else going
\* on, a state in which every active template without end date has at least
\* 12 occurrences dated today or later is reached, again and again
C27_RepeatedSweepsFillBuffer == []<>BuffersFull

(***************************************************************************)
(* Validation of a recurrence rule (SpecValidate): the request body's      *)
(* values are untyped.  A value has a kind (undefined, null, integer,      *)
(* fraction, string, array); the fraction of val stands for val + 1/2, the *)
(* string of val for its decimal text.                                     *)
(***************************************************************************)
Js(kind, val, items) == [kind |-> kind, val |-> val, items |-> items]

\* typeof v === "number"
IsNumber(v) == v.kind \in {"integer", "fraction"}

\* !v
IsFalsy(v) == v.kind \in {"undefined", "null"} \/ (v.kind = "integer" /\ v.val = 0)

\* v !== undefined && v !== null
IsSet(v) == v.kind \notin {"undefined", "null"}

Valid == [isValid |-> TRUE, error |-> "none"]

Invalid(error) == [isValid |-> FALSE, error |-> error]

validateInterval(interval) ==
  IF ~IsNumber(interval) THEN Invalid("interval must be a number")
  ELSE IF interval.kind # "integer" THEN Invalid("interval must be an integer")
  ELSE IF interval.val < 1 THEN Invalid("interval must be at least 1")
  ELSE Valid

\* a check of the weekdays that lets a repeated day pass
validateDaysOfWeekAllowingDuplicates(daysOfWeek) ==
  IF daysOfWeek.kind # "array" THEN Invalid("days_of_week must be an array")
  ELSE IF Len(daysOfWeek.items) = 0
  THEN Invalid("days_of_week cannot be empty for weekly recurrence")
  ELSE IF \E i \in 1..Len(daysOfWeek.items) :
            \/ ~IsNumber(daysOfWeek.items[i])
            \/ daysOfWeek.items[i].val < 0
            \/ daysOfWeek.items[i].val > 6
            \/ daysOfWeek.items[i].kind # "integer"
  THEN Invalid("days_of_week must contain only integers between 0 and 6 (0=Sunday, 6=Saturday)")
  ELSE Valid

validateDaysOfWeek(daysOfWeek) ==
  IF daysOfWeek.kind # "array" THEN Invalid("days_of_week must be an array")
  ELSE IF Len(daysOfWeek.items) = 0
  THEN Invalid("days_of_week cannot be empty for weekly recurrence")
  ELSE IF \E i \in 1..Len(daysOfWeek.items) :
            \/ ~IsNumber(daysOfWeek.items[i])
            \/ daysOfWeek.items[i].val < 0
            \/ daysOfWeek.items[i].val > 6
            \/ daysOfWeek.items[i].kind # "integer"
  THEN Invalid("days_of_week must contain only integers between 0 and 6 (0=Sunday, 6=Saturday)")
  ELSE IF Cardinality({daysOfWeek.items[i].val : i \in 1..Len(daysOfWeek.items)})
            # Len(daysOfWeek.items)
  THEN Invalid("days_of_week contains duplicate values")
  ELSE Valid

validateDayOfMonth(dayOfMonth) ==
  IF ~IsNumber(dayOfMonth) THEN Invalid("day_of_month must be a number")
  ELSE IF dayOfMonth.kind # "integer" THEN Invalid("day_of_month must be an integer")
  ELSE IF dayOfMonth.val < 1 \/ dayOfMonth.val > 31
  THEN Invalid("day_of_month must be between 1 and 31")
  ELSE Valid

\* the switch on the frequency, after the interval check
RequirementsOf(frequency, data) ==
  CASE frequency = "DAILY" ->
         IF IsSet(data.days_of_week)
         THEN Invalid("days_of_week should not be set for daily recurrence")
         ELSE IF IsSet(data.day_of_month)
         THEN Invalid("day_of_month should not be set for daily recurrence")
         ELSE Valid
    [] frequency = "WEEKLY" ->
         IF IsFalsy(data.days_of_week)
         THEN Invalid("days_of_week is required for weekly recurrence")
         ELSE IF ~validateDaysOfWeek(data.days_of_week).isValid
         THEN validateDaysOfWeek(data.days_of_week)
         ELSE IF IsSet(data.day_of_month)
         THEN Invalid("day_of_month should not be set for weekly recurrence")
         ELSE Valid
    [] frequency = "MONTHLY" ->
         IF IsFalsy(data.day_of_month)
         THEN Invalid("day_of_month is required for monthly recurrence")
         ELSE IF ~validateDayOfMonth(data.day_of_month).isValid
         THEN validateDayOfMonth(data.day_of_month)
         ELSE IF IsSet(data.days_of_week)
         THEN Invalid("days_of_week should not be set for monthly recurrence")
         ELSE Valid
    [] frequency = "YEARLY" ->
         IF IsSet(data.days_of_week)
         THEN Invalid("days_of_week should not be set for yearly recurrence")
         ELSE IF IsSet(data.day_of_month)
         THEN Invalid("day_of_month should not be set for yearly recurrence")
         ELSE Valid
    [] OTHER -> Invalid("Unknown frequency")

validateRecurrenceRequirements(frequency, data) ==
  IF data.interval.kind # "undefined" /\ ~validateInterval(data.interval).isValid
  THEN validateInterval(data.interval)
  ELSE RequirementsOf(frequency, data)

\* the values a request body can carry in a field: absent, null, integers in
\* and out of range, a fraction, a string, and arrays of these
ScalarInputs ==
  {Js("undefined", 0, <<>>), Js("null", 0, <<>>), Js("string", 1, <<>>),
   Js("fraction", 1, <<>>)}
  \cup {Js("integer", n, <<>>) : n \in {-1, 0, 1, 2, 6, 7, 31, 32}}

ArrayInputs ==
  {Js("array", 0, <<>>)} \cup
  {Js("array", 0, <<x>>) : x \in ScalarInputs} \cup
  {Js("array", 0, <<Js("integer", a, <<>>), Js("integer", b, <<>>)>>) :
     a \in {0, 1, 6, 7}, b \in {1, 3}}

FrequencyInputs == {"DAILY", "WEEKLY", "MONTHLY", "YEARLY", "HOURLY"}

RequirementInputs ==
  [interval : ScalarInputs, days_of_week : ScalarInputs \cup ArrayInputs,
   day_of_month : ScalarInputs \cup {Js("array", 0, <<Js("integer", 1, <<>>)>>)}]

InitValidate ==
  /\ db = EmptyDb
  /\ now = ClockStart
  /\ last = Last("init", 0, 0, "none", EmptyDb, EmptyDb)
  /\ steps = 0
  /\ procs = NoProcs
  /\ sweep = SweepIdle
  /\ \E f \in FrequencyInputs, data \in RequirementInputs :
       calc = [phase |-> "input", frequency |-> f, data |-> data,
               result |-> Valid]

ValidateRecurrenceRequirements ==
  /\ calc.phase = "input"
  /\ calc' = [calc EXCEPT
       !.phase = "done",
       !.result = validateRecurrenceRequirements(calc.frequency, calc.data)]
  /\ UNCHANGED <<db, now, last, steps, procs, sweep>>

NextValidate == ValidateRecurrenceRequirements

SpecValidate == InitValidate /\ [][NextValidate]_vars

\* an integer of the range lo..hi
IntegerIn(v, lo, hi) == v.kind = "integer" /\ lo <= v.val /\ v.val <= hi

\* C23: validateRecurrenceRequirements accepts a rule exactly when the
\* interval, if the body carries one, is an integer >= 1, and a WEEKLY rule has
\* a non-empty array of distinct integers 0..6 as days_of_week and no
\* day_of_month, a MONTHLY rule has an integer 1..31 as day_of_month and no
\* days_of_week, and a DAILY or YEARLY rule has neither (a field that is
\* absent or null counts as not set)
C23_ValidationAcceptsExactlyWellFormedRules ==
  calc.phase = "done" =>
    LET f   == calc.frequency
        i   == calc.data.interval
        dow == calc.data.days_of_week
        dom == calc.data.day_of_month
    IN calc.result.isValid <=>
         /\ i.kind # "undefined" => (i.kind = "integer" /\ i.val >= 1)
         /\ f \in {"DAILY", "WEEKLY", "MONTHLY", "YEARLY"}
         /\ f = "WEEKLY" =>
              /\ dow.kind = "array"
              /\ Len(dow.items) > 0
              /\ \A k \in 1..Len(dow.items) : IntegerIn(dow.items[k], 0, 6)
              /\ \A k, l \in 1..Len(dow.items) :
                   k # l => dow.items[k] # dow.items[l]
              /\ dom.kind \in {"undefined", "null"}
         /\ f = "MONTHLY" =>
              /\ IntegerIn(dom, 1, 31)
              /\ dow.kind \in {"undefined", "null"}
         /\ f \in {"DAILY", "YEARLY"} =>
              /\ dow.kind \in {"undefined", "null"}
              /\ dom.kind \in {"undefined", "null"}

\* a WEEKLY rule with two distinct weekdays and an interval is accepted
C23_Witness ==
  /\ calc.phase = "done"
  /\ calc.frequency = "WEEKLY"
  /\ calc.data.interval.kind = "integer"
  /\ calc.data.days_of_week.kind = "array"
  /\ Len(calc.data.days_of_week.items) = 2
  /\ calc.result.isValid

(***************************************************************************)
(* Properties of the concurrent callers (SpecConc) and the sweep           *)
(***************************************************************************)
\* C2: no two task occurrences share (recurring_template_id, occurrence_date).
C2_UniqueOccurrencePerDate ==
  \A a, b \in db.tasks :
    (/\ a.recurring_template_id = b.recurring_template_id
     /\ a.occurrence_date = b.occurrence_date) => a.task_id = b.task_id

\* a caller's insert was rejected for a date another writer had created after
\* the caller read the existing dates
C2_Witness ==
  \E p \in ProcIds :
    /\ procs[p].pc = "done"
    /\ procs[p].err = "P2002"
    /\ \E i \in 1..Len(procs[p].occurrences) :
         \E o \in TasksOf(db, procs[p].template) :
           o.occurrence_date = procs[p].occurrences[i]

\* C6: when the sweep ends, ensureInstanceBuffer has been called for every
\* template that was active when it started, also after a call failed.
C6_SweepIsolatesFailures ==
  sweep.pc \in {"done", "failed"} => sweep.called = sweep.active

\* C7: when two ensureInstanceBuffer calls for the same template have both
\* tried to insert a common date, neither returns a duplicate-key error to its
\* caller.
C7_DuplicateInsertTolerated ==
  \A p, q \in ProcIds :
    (/\ p # q
     /\ procs[p].op = "ensureInstanceBuffer" /\ procs[q].op = "ensureInstanceBuffer"
     /\ procs[p].template = procs[q].template
     /\ procs[p].pc = "done" /\ procs[q].pc = "done"
     /\ SeqToSet(procs[p].occurrences) \cap SeqToSet(procs[q].occurrences) # {})
      => (procs[p].err # "P2002" /\ procs[q].err # "P2002")

====
